---- MODULE Spec2Model ----
(***************************************************************************)
(* State-machine model of the strategy-fallback transcriber:               *)
(*   transcribe_youtube_smart.py   the orchestrator, main and its helpers  *)
(*   transcribe_youtube.py         the Direct (Gemini) strategy and its    *)
(*                                 retry loop                              *)
(*   transcribe_youtube_api.py     the Captions strategy                   *)
(*   transcribe_youtube_ytdlp.py   the Local (yt-dlp + Gemini) strategy    *)
(* The strategies run as child processes of the orchestrator; a child is   *)
(* seen by its parent through its return code and its captured output.     *)
(***************************************************************************)
EXTENDS Integers, Sequences, FiniteSets, TLC

VARIABLES
    args,        \* parsed command line of transcribe_youtube_smart.py
    installed,   \* youtube_transcript_api can be imported
    pc,          \* position of the orchestrator (and of the child it waits for)
    success,     \* main's local `success`
    result,      \* main's local `result`, the value of try_gemini_api
    log,         \* the "Attempting to ..." lines printed so far, with outcomes
    output,      \* what the output file holds
    exit_code,   \* return value of main, -1 while running
    max_retries, \* parameter of transcribe_youtube_video
    attempt,     \* loop variable of transcribe_youtube_video
    svc,         \* responses of client.models.generate_content, in call order
    waits,       \* integer bases of the time.sleep calls, in call order
    exc,         \* exception leaving transcribe_youtube_video
    d_rc,        \* return code of transcribe_youtube.py
    wait_time,   \* argument of the latest time.sleep of transcribe_youtube_video
    stderr,      \* what transcribe_youtube_smart.py wrote to its stderr
    batch_result, \* what transcribe_video of the playlist batch returned
    l_args,      \* parsed command line of transcribe_youtube_ytdlp.py
    l_pc,        \* position of main of transcribe_youtube_ytdlp.py
    temp_dir,    \* the tempfile.TemporaryDirectory of main
    files,       \* the files main has left on disk
    remote,      \* state of the file on the Gemini file service
    polls,       \* genai.get_file calls of upload_to_gemini, modulo PollWindow
    uploaded_file, \* main's local `uploaded_file`
    cleanup,     \* what cleanup_gemini_file did
    l_gen,       \* responses of generate_content in transcribe_audio_with_gemini
    l_rc,        \* return value of main of transcribe_youtube_ytdlp.py, -1 while running
    run,         \* 1 in the first run of the orchestrator, 2 when it is run again
    first,       \* what the first run did, kept when the orchestrator is run again
    video_id,    \* main's local `video_id`
    b_args,      \* parsed command line of youtube_playlist_to_markdown.py
    b_pc,        \* position of main of youtube_playlist_to_markdown.py
    videos,      \* the playlist: the video ids yt-dlp listed, in playlist order
    videos_to_process, \* main's local `videos_to_process`
    results,     \* main's local `results`
    out_dir,     \* what the output directory holds for each video id
    out_dir0,    \* what it held when the batch started
    orchestrated, \* the videos passed to transcribe_youtube_smart.py, in call order
    reported,    \* the counts of the final summary
    smart_exists, \* os.path.exists("transcribe_youtube_smart.py")
    b_i          \* how many videos the loop of the batch has gone through

vars == <<args, installed, pc, success, result, log, output, exit_code,
          max_retries, attempt, svc, waits, exc, d_rc, wait_time, stderr,
          batch_result, l_args, l_pc, temp_dir, files, remote, polls,
          uploaded_file, cleanup, l_gen, l_rc, run, first, video_id,
          b_args, b_pc, videos, videos_to_process, results, out_dir, out_dir0,
          orchestrated, reported, smart_exists, b_i>>

localVars == <<l_args, l_pc, temp_dir, files, remote, polls, uploaded_file,
               cleanup, l_gen, l_rc>>
smartVars == <<args, installed, pc, success, result, log, output, exit_code,
               max_retries, attempt, svc, waits, exc, d_rc, wait_time, stderr,
               batch_result>>

\* State of the playlist batch.
batchVars == <<b_args, b_pc, videos, videos_to_process, results, out_dir,
               out_dir0, orchestrated, reported, smart_exists, b_i>>

\* State of whoever runs the scripts, across runs.
callerVars == <<run, first, batchVars>>

orchVars == <<args, installed, success, result, log, output, exit_code>>
directVars == <<max_retries, attempt, svc, waits, exc, d_rc>>

(***************************************************************************)
(* Inputs and environment                                                  *)
(***************************************************************************)
\* --mode choices
Modes == {"transcribe", "summarize", "outline"}

\* Strings are sequences of one-character strings.
\* [0-9A-Za-z_-]
IdChars ==
    {"0", "1", "2", "3", "4", "5", "6", "7", "8", "9",
     "A", "B", "C", "D", "E", "F", "G", "H", "I", "J", "K", "L", "M",
     "N", "O", "P", "Q", "R", "S", "T", "U", "V", "W", "X", "Y", "Z",
     "a", "b", "c", "d", "e", "f", "g", "h", "i", "j", "k", "l", "m",
     "n", "o", "p", "q", "r", "s", "t", "u", "v", "w", "x", "y", "z",
     "_", "-"}

\* Video identifiers: 11 characters of IdChars.
Id1 ==
    <<"d", "Q", "w", "4", "w", "9", "W", "g", "X", "c", "Q">>
Id2 ==
    <<"a", "-", "B", "_", "c", "0", "v", "Z", "1", "2", "3">>
VideoIds == {Id1, Id2}

HttpsPrefix ==
    <<"h", "t", "t", "p", "s", ":", "/", "/">>
HttpPrefix ==
    <<"h", "t", "t", "p", ":", "/", "/">>
WatchHost ==
    <<"w", "w", "w", ".", "y", "o", "u", "t", "u", "b", "e", ".", "c", "o",
      "m">>
BareHost ==
    <<"y", "o", "u", "t", "u", "b", "e", ".", "c", "o", "m">>
ShortHost ==
    <<"y", "o", "u", "t", "u", ".", "b", "e">>
WwwShortHost ==
    <<"w", "w", "w", ".", "y", "o", "u", "t", "u", ".", "b", "e">>
WatchPath ==
    <<"/", "w", "a", "t", "c", "h">>
EmbedPrefix ==
    <<"/", "e", "m", "b", "e", "d", "/">>
VParam ==
    <<"v", "=">>

\* The shapes of reference: canonical watch URL, short URL, embed URL, bare id.
WatchUrl(id) == HttpsPrefix \o WatchHost \o WatchPath \o <<"?">> \o VParam \o id
ShortUrl(id) == HttpsPrefix \o ShortHost \o <<"/">> \o id
EmbedUrl(id) == HttpsPrefix \o WatchHost \o EmbedPrefix \o id
BareId(id) == id
Shapes == {"watch", "short", "embed", "bare"}
Wrap(shape, id) ==
    CASE shape = "watch" -> WatchUrl(id)
      [] shape = "short" -> ShortUrl(id)
      [] shape = "embed" -> EmbedUrl(id)
      [] shape = "bare"  -> BareId(id)

\* A string that is no reference at all, and the short URL of no video.
NotAUrl ==
    <<"n", "o", "t", " ", "a", " ", "u", "r", "l">>
EmptyIdUrl == HttpsPrefix \o ShortHost \o <<"/">>

\* Python's None where a string is expected.
None == <<"None">>

\* The references of the orchestrator runs: one from which a video id can be
\* extracted, one from which none can (extract_video_id returns None), and
\* "https://youtu.be/", whose path[1:] is the empty string.
Urls == {WatchUrl(Id1), NotAUrl, EmptyIdUrl}

\* Default of the max_retries parameter.
DEFAULT_MAX_RETRIES == 5

\* The largest max_retries that transcribe_youtube_video is called with.
MaxAttempts == 6

\* What input() gives at the install prompt: an answer, or end of input.
InputResponses == {"y", "n", "eof"}

\* How transcribe_youtube_api.py can end.
CaptionOutcomes == {"ok", "no_transcripts", "error"}

\* How transcribe_youtube_ytdlp.py can end.
LocalOutcomes ==
    {"ok", "ytdlp_missing", "download_failed", "upload_failed", "generation_failed"}

\* What one generate_content call can do: return a response with text ("ok")
\* or one whose .text is None ("no_text"), or raise an error whose text is
\* "503 ... The model is overloaded", "503 ... unavailable",
\* "... exceeds the maximum number of tokens ...", or anything else.
ServiceResponses ==
    {"ok", "no_text", "overloaded", "unavailable", "too_large", "other"}

\* The responses that are returned, not raised.
Returns == {"ok", "no_text"}

\* Resolution of the model of random.random(): it gives r / JitterDen for an
\* integer r with 0 <= r < JitterDen.
JitterDen == 2

\* random.random() is in [0.0, 1.0)
RandomValues == 0..(JitterDen - 1)

\* --end not given: args.end is None.
NoEnd == [given |-> FALSE, value |-> 0]
\* The final summary has not been printed.
NotReported == [successful |-> -1, failed |-> -1]
NoArtifact == [strategy |-> "none", mode |-> "none"]
NoWait == [base |-> 0, jitter |-> 0]
NoLocalArgs == [mode |-> "transcribe", audio_output |-> FALSE, keep_audio |-> FALSE]

\* The polls of upload_to_gemini are counted modulo PollWindow.
PollWindow == 2

\* What download_audio can do: leave the mp3, fail, or fail with a file left behind.
DownloadOutcomes == {"ok", "failed", "failed_partial"}
\* uploaded_file.state.name
FileStates == {"PROCESSING", "ACTIVE", "FAILED"}
\* What genai.upload_file and genai.get_file can do: return a file in a state, or raise.
FileResponses == FileStates \cup {"error"}
\* What generate_content of transcribe_audio_with_gemini can do: return the
\* text, raise "503 ... The model is overloaded", or raise anything else.
GenerationOutcomes == {"ok", "overloaded", "failed"}
\* What genai.delete_file can do.
DeleteOutcomes == {"deleted", "error"}

\* main of transcribe_youtube_ytdlp.py before its first statement.
LocalIdle ==
    /\ temp_dir = "none"
    /\ files = {}
    /\ remote = "absent"
    /\ polls = 0
    /\ uploaded_file = "None"
    /\ cleanup = "not_called"
    /\ l_gen = <<>>
    /\ l_rc = -1

\* The playlist batch is not running.
BatchIdle ==
    /\ b_args = [start |-> 1, end |-> NoEnd, skip_existing |-> FALSE,
                 force |-> "None", mode |-> "transcribe"]
    /\ b_pc = "idle"
    /\ videos = <<>>
    /\ videos_to_process = <<>>
    /\ results = <<>>
    /\ out_dir = [id \in {} |-> "absent"]
    /\ out_dir0 = [id \in {} |-> "absent"]
    /\ orchestrated = <<>>
    /\ reported = NotReported
    /\ smart_exists = TRUE
    /\ b_i = 0

NoFirstRun == [log |-> <<>>, svc |-> <<>>, exit_code |-> -1,
               installed |-> FALSE, crashed |-> FALSE]
NotReturned == [success |-> FALSE, message |-> <<>>, returned |-> FALSE]
NoException == [kind |-> "none", attempts |-> 0]

(***************************************************************************)
(* Pure helpers                                                            *)
(***************************************************************************)
Min(S) == CHOOSE x \in S : \A y \in S : x <= y

\* The first position from `from` on at which s has a character of C,
\* Len(s) + 1 when there is none.
FirstIn(s, C, from) ==
    LET I == {i \in from..Len(s) : s[i] \in C}
    IN  IF I = {} THEN Len(s) + 1 ELSE Min(I)

\* s.startswith(p), and p found in s at position i
StartsWith(s, p) == Len(s) >= Len(p) /\ SubSeq(s, 1, Len(p)) = p
StartsAt(s, p, i) == i + Len(p) - 1 <= Len(s) /\ SubSeq(s, i, i + Len(p) - 1) = p

\* s.split(c)
RECURSIVE Split(_, _)
Split(s, c) ==
    LET i == FirstIn(s, {c}, 1)
    IN  IF i > Len(s) THEN <<s>>
        ELSE <<SubSeq(s, 1, i - 1)>> \o Split(SubSeq(s, i + 1, Len(s)), c)

\* urllib.parse.urlparse on an http(s) URL or a string with no scheme: the
\* host up to the first "/", "?" or "#", the path up to "?" or "#", the query
\* up to "#"; without a scheme there is no host and the string is the path.
urlparse(url) ==
    LET scheme == IF StartsWith(url, HttpsPrefix) THEN Len(HttpsPrefix)
                  ELSE IF StartsWith(url, HttpPrefix) THEN Len(HttpPrefix)
                  ELSE 0
        netEnd == IF scheme = 0 THEN 0
                  ELSE FirstIn(url, {"/", "?", "#"}, scheme + 1) - 1
        netloc == IF scheme = 0 THEN <<>> ELSE SubSeq(url, scheme + 1, netEnd)
        pathEnd == FirstIn(url, {"?", "#"}, netEnd + 1) - 1
        hasQuery == pathEnd < Len(url) /\ url[pathEnd + 1] = "?"
        queryEnd == FirstIn(url, {"#"}, pathEnd + 2) - 1
    IN  [hostname |-> IF netloc = <<>> THEN None ELSE netloc,
         path |-> SubSeq(url, netEnd + 1, pathEnd),
         query |-> IF hasQuery THEN SubSeq(url, pathEnd + 2, queryEnd) ELSE <<>>]

\* parse_qs(query).get('v', [None])[0]: the value of the first v=... field
\* whose value is not blank
QueryV(query) ==
    LET fields == Split(query, "&")
        good == {k \in 1..Len(fields) :
                   StartsWith(fields[k], VParam) /\ Len(fields[k]) > Len(VParam)}
    IN  IF good = {} THEN None
        ELSE SubSeq(fields[Min(good)], Len(VParam) + 1, Len(fields[Min(good)]))

\* [0-9A-Za-z_-]{11} found in url at position j
ElevenIdChars(url, j) ==
    j + 10 <= Len(url) /\ \A k \in j..(j + 10) : url[k] \in IdChars

\* re.search(r'(?:v=|/)([0-9A-Za-z_-]{11}).*', url): group 1 of the leftmost
\* match, None when there is no match
SearchVideoId(url) ==
    LET at(i) == IF StartsAt(url, VParam, i) /\ ElevenIdChars(url, i + 2) THEN i + 2
                 ELSE IF url[i] = "/" /\ ElevenIdChars(url, i + 1) THEN i + 1
                 ELSE 0
        I == {i \in 1..Len(url) : at(i) # 0}
    IN  IF I = {} THEN None ELSE SubSeq(url, at(Min(I)), at(Min(I)) + 10)

\* extract_video_id of transcribe_youtube_smart.py
extract_video_id(url) ==
    LET parsed_url == urlparse(url)
    IN  IF parsed_url.hostname \in {WatchHost, BareHost} /\ parsed_url.path = WatchPath
        THEN QueryV(parsed_url.query)
        ELSE IF parsed_url.hostname \in {WatchHost, BareHost}
                /\ StartsWith(parsed_url.path, EmbedPrefix)
        THEN Split(parsed_url.path, "/")[3]
        ELSE IF parsed_url.hostname \in {ShortHost, WwwShortHost}
        THEN SubSeq(parsed_url.path, 2, Len(parsed_url.path))
        ELSE SearchVideoId(url)

\* Mutant of Rejected: tests `video_id is None`.
Rejected_is_none(vid) == vid = None

\* `if not video_id`
Rejected(vid) == vid \in {None, <<>>}

\* Substring tests on str(e)
Has503(e) == e \in {"overloaded", "unavailable"}
HasOverloaded(e) == e = "overloaded"
HasMaxTokens(e) == e = "too_large"

\* 2 ** attempt
RECURSIVE Pow2(_)
Pow2(n) == IF n = 0 THEN 1 ELSE 2 * Pow2(n - 1)

\* random.uniform(a, b) is a + (b - a) * random.random(); in units of 1 / JitterDen
uniform(a, b, r) == a * JitterDen + (b - a) * r

\* Mutant of WaitBase: the exponent is the 1-indexed attempt.
WaitBase_one_indexed(att) == Pow2(att + 1)

\* The integer part of wait_time, 2 ** attempt
WaitBase(att) == Pow2(att)

\* Mutant of RetryDecision: the overload error is raised at once, never retried.
RetryDecision_never(e, att, maxr) ==
    IF Has503(e) /\ HasOverloaded(e) THEN "raise_overloaded"
    ELSE IF HasMaxTokens(e) THEN "raise_too_long" ELSE "reraise"

\* Mutants of RetryDecision: gives up one attempt early; retries "too large".
RetryDecision_early(e, att, maxr) ==
    IF Has503(e) /\ HasOverloaded(e)
    THEN IF att < maxr - 2 THEN "sleep" ELSE "raise_overloaded"
    ELSE IF HasMaxTokens(e) THEN "raise_too_long" ELSE "reraise"

RetryDecision_retry_too_large(e, att, maxr) ==
    IF (Has503(e) /\ HasOverloaded(e)) \/ HasMaxTokens(e)
    THEN IF att < maxr - 1 THEN "sleep"
         ELSE IF HasMaxTokens(e) THEN "raise_too_long" ELSE "raise_overloaded"
    ELSE "reraise"

\* The except clause of transcribe_youtube_video.
RetryDecision(e, att, maxr) ==
    IF Has503(e) /\ HasOverloaded(e)
    THEN IF att < maxr - 1 THEN "sleep" ELSE "raise_overloaded"
    ELSE IF HasMaxTokens(e) THEN "raise_too_long" ELSE "reraise"

\* The exception the except clause raises for a decision.
Raised(decision, e, maxr) ==
    CASE decision = "raise_overloaded" -> [kind |-> "overloaded_after", attempts |-> maxr]
      [] decision = "raise_too_long"   -> [kind |-> "too_long", attempts |-> 0]
      [] OTHER                         -> [kind |-> e, attempts |-> 0]

\* "exceeds token limit" in the stdout of transcribe_youtube.py: its main prints
\* "Error processing video: {e}", and only the "Video is too long" message has it
\* (the TypeError of a failed write has not).
StdoutHasTokenLimit(x) == x.kind = "too_long"

\* "exceeds the maximum number of tokens" in its stderr: main catches every
\* Exception and prints to stdout.
StderrHasMaxTokens(x) == FALSE

\* Mutant of try_gemini_api: every failure is taken for the token limit.
try_gemini_api_all_token_limit(returncode, stdoutTL, stderrMT) ==
    IF returncode = 0 THEN "True" ELSE "token_limit"

\* The value of try_gemini_api from the child's return code and output.
try_gemini_api(returncode, stdoutTL, stderrMT) ==
    IF returncode = 0 THEN "True"
    ELSE IF stdoutTL \/ stderrMT THEN "token_limit" ELSE "False"

\* Mutant of try_youtube_api: an error other than "no transcripts" counts as success.
try_youtube_api_error_true(o) == o # "no_transcripts"

\* The value of try_youtube_api for an outcome of the child.
try_youtube_api(o) == o = "ok"

\* The value of try_ytdlp_gemini for an outcome of the child.
try_ytdlp_gemini(o) == o = "ok"

\* Mutant of EscalateToLocal: a truthiness test of result.
EscalateToLocal_truthy(r) == r # "False"

\* `if result == "token_limit"`
EscalateToLocal(r) == r = "token_limit"

\* Mutants of DowngradeAllowed: one drops `not success`, one the mode test,
\* one tests the wrong mode.
DowngradeAllowed_ignores_success(s, mode) == mode = "transcribe"

DowngradeAllowed_any_mode(s, mode) == ~s

DowngradeAllowed_wrong_mode(s, mode) == ~s /\ mode = "summarize"

\* `if not success and args.mode == "transcribe"`
DowngradeAllowed(s, mode) == ~s /\ mode = "transcribe"

\* Mutant of DowngradeMode: the second downgrade goes back to the transcript.
DowngradeMode_back(step) == IF step = 1 THEN "summarize" ELSE "transcribe"

\* Mutant of DowngradeMode: both downgrade attempts ask for a summary.
DowngradeMode_stuck(step) == "summarize"

\* Mutant of DowngradeMode: the two coarser modes swapped.
DowngradeMode_swapped(step) == IF step = 1 THEN "outline" ELSE "summarize"

\* The modes of the two downgrade attempts.
DowngradeMode(step) == IF step = 1 THEN "summarize" ELSE "outline"

\* Mutant of CaptionsAvailable: the answer from before the install dialog is used.
CaptionsAvailable_stale(before, after) == before

\* The second `if check_youtube_transcript_api():`, evaluated after the dialog
CaptionsAvailable(before, after) == after

\* Mutant of TryDirect: Direct is tried whatever came before.
TryDirect_always(s, force_ytdlp) == TRUE

\* Mutant of TryDirect: the test of --force-ytdlp is missing.
TryDirect_ignores_force(s, force_ytdlp) == ~s

\* `if not success and not args.force_ytdlp`
TryDirect(s, force_ytdlp) == ~s /\ ~force_ytdlp

\* Mutant of ExitCode: the failure branch returns 0 too.
ExitCode_always_zero(s) == 0

\* `return 0` under `if success`, `return 1` under `else`
ExitCode(s) == IF s THEN 0 ELSE 1

Entry(strategy, mode, outcome) ==
    [strategy |-> strategy, mode |-> mode, outcome |-> outcome]

\* A line of output that is not about a strategy call.
Line(text) == Entry("none", "none", text)

\* The message transcribe_video returns for a finished child: on success the
\* "saved to:" line of its stdout, on failure its stderr, or "Unknown error"
\* when the stderr is empty.
BatchMessage(returncode, out, err) ==
    IF returncode = 0 THEN <<Line("Successfully saved to")>>
    ELSE IF err # <<>> THEN err ELSE <<Line("Unknown error")>>

\* The file a child leaves at the output path: written only when it succeeds.
Written(strategy, mode, ok) ==
    IF ok THEN [strategy |-> strategy, mode |-> mode] ELSE output

(***************************************************************************)
(* Initial state                                                           *)
(***************************************************************************)
\* main of transcribe_youtube_smart.py before its first statement.
MainStarts ==
    /\ installed \in BOOLEAN
    /\ pc = "validate"
    /\ success = FALSE
    /\ result = "None"
    /\ log = <<>>
    /\ output = NoArtifact
    /\ exit_code = -1
    /\ max_retries = DEFAULT_MAX_RETRIES
    /\ attempt = 0
    /\ svc = <<>>
    /\ waits = <<>>
    /\ exc = NoException
    /\ d_rc = -1
    /\ wait_time = NoWait
    /\ stderr = <<>>
    /\ l_args = NoLocalArgs
    /\ l_pc = "idle"
    /\ LocalIdle
    /\ run = 1
    /\ first = NoFirstRun
    /\ video_id = None
    /\ batch_result = NotReturned

Init ==
    /\ args \in [url : Urls, mode : Modes,
                 force_gemini : BOOLEAN, force_ytdlp : BOOLEAN]
    /\ MainStarts
    /\ BatchIdle

(***************************************************************************)
(* transcribe_youtube_smart.py main                                        *)
(***************************************************************************)
\* Validate URL
Validate ==
    /\ pc = "validate"
    /\ video_id' = extract_video_id(args.url)
    /\ IF Rejected(video_id')
       THEN /\ exit_code' = 1
            /\ pc' = "done"
       ELSE /\ pc' = "step1"
            /\ UNCHANGED exit_code
    /\ UNCHANGED <<args, installed, success, result, log, output>>
    /\ UNCHANGED directVars
    /\ UNCHANGED <<wait_time, stderr, batch_result>>
    /\ UNCHANGED localVars
    /\ UNCHANGED callerVars

\* Step 1: forced yt-dlp
Step1ForceYtdlp ==
    /\ pc = "step1"
    /\ args.force_ytdlp
    /\ \E o \in LocalOutcomes :
         /\ log' = Append(log, Entry("local", args.mode, o))
         /\ output' = Written("local", args.mode, o = "ok")
         /\ success' = try_ytdlp_gemini(o)
    /\ pc' = "step3"
    /\ UNCHANGED <<args, installed, result, exit_code>>
    /\ UNCHANGED directVars
    /\ UNCHANGED <<wait_time, stderr, batch_result>>
    /\ UNCHANGED localVars
    /\ UNCHANGED callerVars
    /\ UNCHANGED video_id

\* Step 2: Captions, after the install dialog when the package is missing
Step2Captions ==
    /\ pc = "step1"
    /\ ~args.force_ytdlp
    /\ ~args.force_gemini
    /\ \E response \in InputResponses, pip_ok \in BOOLEAN :
         IF ~installed /\ response = "eof"
         THEN \* input() raises EOFError, which nothing catches
              /\ exit_code' = 1
              /\ pc' = "done"
              /\ stderr' = Append(stderr, Line("EOFError traceback"))
              /\ UNCHANGED <<installed, log, output, success>>
         ELSE /\ installed' = IF installed THEN TRUE ELSE (response = "y" /\ pip_ok)
              /\ IF CaptionsAvailable(installed, installed')
                 THEN \E o \in CaptionOutcomes :
                        /\ log' = Append(log, Entry("captions", "transcribe", o))
                        /\ output' = Written("captions", "transcribe", o = "ok")
                        /\ success' = try_youtube_api(o)
                 ELSE UNCHANGED <<log, output, success>>
              /\ pc' = "step3"
              /\ UNCHANGED <<exit_code, stderr>>
    /\ UNCHANGED <<args, result>>
    /\ UNCHANGED directVars
    /\ UNCHANGED <<wait_time, batch_result>>
    /\ UNCHANGED localVars
    /\ UNCHANGED callerVars
    /\ UNCHANGED video_id

\* Neither branch of the if/elif is taken with --force-gemini alone
Step2ForceGemini ==
    /\ pc = "step1"
    /\ ~args.force_ytdlp
    /\ args.force_gemini
    /\ pc' = "step3"
    /\ UNCHANGED orchVars
    /\ UNCHANGED directVars
    /\ UNCHANGED <<wait_time, stderr, batch_result>>
    /\ UNCHANGED localVars
    /\ UNCHANGED callerVars
    /\ UNCHANGED video_id

\* Step 3: start transcribe_youtube.py unless something succeeded or yt-dlp is forced
Step3 ==
    /\ pc = "step3"
    /\ IF TryDirect(success, args.force_ytdlp)
       THEN /\ log' = Append(log, Entry("direct", args.mode, "running"))
            /\ pc' = "gemini_start"
       ELSE /\ pc' = "finish"
            /\ UNCHANGED log
    /\ UNCHANGED <<args, installed, success, result, output, exit_code>>
    /\ UNCHANGED directVars
    /\ UNCHANGED <<wait_time, stderr, batch_result>>
    /\ UNCHANGED localVars
    /\ UNCHANGED callerVars
    /\ UNCHANGED video_id

\* try_gemini_api reads the finished child
TryGeminiReturn ==
    /\ pc = "gemini_return"
    /\ result' = try_gemini_api(d_rc, StdoutHasTokenLimit(exc), StderrHasMaxTokens(exc))
    /\ log' = [log EXCEPT ![Len(log)].outcome = result']
    /\ pc' = "step4"
    /\ UNCHANGED <<args, installed, success, output, exit_code>>
    /\ UNCHANGED directVars
    /\ UNCHANGED <<wait_time, stderr, batch_result>>
    /\ UNCHANGED localVars
    /\ UNCHANGED callerVars
    /\ UNCHANGED video_id

\* Step 4: on the token limit go to yt-dlp, else success = result == True
Step4 ==
    /\ pc = "step4"
    /\ IF EscalateToLocal(result)
       THEN /\ \E o \in LocalOutcomes :
                 /\ log' = Append(log, Entry("local", args.mode, o))
                 /\ output' = Written("local", args.mode, o = "ok")
                 /\ success' = try_ytdlp_gemini(o)
            /\ pc' = "step5_summary"
       ELSE /\ success' = (result = "True")
            /\ pc' = "finish"
            /\ UNCHANGED <<log, output>>
    /\ UNCHANGED <<args, installed, result, exit_code>>
    /\ UNCHANGED directVars
    /\ UNCHANGED <<wait_time, stderr, batch_result>>
    /\ UNCHANGED localVars
    /\ UNCHANGED callerVars
    /\ UNCHANGED video_id

\* Step 5, first downgrade
Step5Summary ==
    /\ pc = "step5_summary"
    /\ IF DowngradeAllowed(success, args.mode)
       THEN /\ \E o \in LocalOutcomes :
                 /\ log' = Append(log, Entry("local", DowngradeMode(1), o))
                 /\ output' = Written("local", DowngradeMode(1), o = "ok")
                 /\ success' = try_ytdlp_gemini(o)
            /\ pc' = "step5_outline"
       ELSE /\ pc' = "finish"
            /\ UNCHANGED <<log, output, success>>
    /\ UNCHANGED <<args, installed, result, exit_code>>
    /\ UNCHANGED directVars
    /\ UNCHANGED <<wait_time, stderr, batch_result>>
    /\ UNCHANGED localVars
    /\ UNCHANGED callerVars
    /\ UNCHANGED video_id

\* Step 5, second downgrade
Step5Outline ==
    /\ pc = "step5_outline"
    /\ IF ~success
       THEN \E o \in LocalOutcomes :
              /\ log' = Append(log, Entry("local", DowngradeMode(2), o))
              /\ output' = Written("local", DowngradeMode(2), o = "ok")
              /\ success' = try_ytdlp_gemini(o)
       ELSE UNCHANGED <<log, output, success>>
    /\ pc' = "finish"
    /\ UNCHANGED <<args, installed, result, exit_code>>
    /\ UNCHANGED directVars
    /\ UNCHANGED <<wait_time, stderr, batch_result>>
    /\ UNCHANGED localVars
    /\ UNCHANGED callerVars
    /\ UNCHANGED video_id

\* return 0 if success else 1
Finish ==
    /\ pc = "finish"
    /\ exit_code' = ExitCode(success)
    /\ pc' = "done"
    /\ UNCHANGED <<args, installed, success, result, log, output>>
    /\ UNCHANGED directVars
    /\ UNCHANGED <<wait_time, stderr, batch_result>>
    /\ UNCHANGED localVars
    /\ UNCHANGED callerVars
    /\ UNCHANGED video_id

(***************************************************************************)
(* youtube_playlist_to_markdown.py, the caller of the orchestrator         *)
(***************************************************************************)
\* transcribe_video after subprocess.run: the stdout of the child is the
\* record of its strategy calls (log); the caller keeps one line or the stderr.
TranscribeVideoReturn ==
    /\ pc = "done"
    /\ ~batch_result.returned
    /\ batch_result' = [success |-> exit_code = 0,
                        message |-> BatchMessage(exit_code, log, stderr),
                        returned |-> TRUE]
    /\ UNCHANGED <<pc, wait_time, stderr>>
    /\ UNCHANGED orchVars
    /\ UNCHANGED directVars
    /\ UNCHANGED localVars
    /\ UNCHANGED callerVars
    /\ UNCHANGED video_id

(***************************************************************************)
(* transcribe_youtube.py                                                   *)
(***************************************************************************)
\* genai.Client(...) at the head of transcribe_youtube_video: it can raise
\* (no API key), and main's except clause then ends the child.
CreateClient ==
    /\ pc = "gemini_start"
    /\ \E ok \in BOOLEAN :
         IF ok
         THEN /\ pc' = "generate"
              /\ UNCHANGED exc
         ELSE /\ exc' = [kind |-> "client_error", attempts |-> 0]
              /\ pc' = "gemini_exit"
    /\ UNCHANGED <<max_retries, attempt, svc, waits, d_rc>>
    /\ UNCHANGED orchVars
    /\ UNCHANGED <<wait_time, stderr, batch_result>>
    /\ UNCHANGED localVars
    /\ UNCHANGED callerVars
    /\ UNCHANGED video_id

\* One iteration of the retry loop of transcribe_youtube_video
GenerateContent ==
    /\ pc = "generate"
    /\ attempt < max_retries
    /\ \E r \in ServiceResponses :
         /\ svc' = Append(svc, r)
         /\ IF r \in Returns
            THEN /\ pc' = "gemini_exit"
                 /\ UNCHANGED <<attempt, waits, exc, wait_time>>
            ELSE LET d == RetryDecision(r, attempt, max_retries) IN
                 IF d = "sleep"
                 THEN /\ waits' = Append(waits, WaitBase(attempt))
                      /\ \E rnd \in RandomValues :
                           wait_time' = [base |-> WaitBase(attempt),
                                         jitter |-> uniform(0, 1, rnd)]
                      /\ attempt' = attempt + 1
                      /\ pc' = "generate"
                      /\ UNCHANGED exc
                 ELSE /\ exc' = Raised(d, r, max_retries)
                      /\ pc' = "gemini_exit"
                      /\ UNCHANGED <<attempt, waits, wait_time>>
    /\ UNCHANGED <<max_retries, d_rc>>
    /\ UNCHANGED orchVars
    /\ UNCHANGED <<stderr, batch_result>>
    /\ UNCHANGED localVars
    /\ UNCHANGED callerVars
    /\ UNCHANGED video_id

\* main of transcribe_youtube.py after transcribe_youtube_video
GeminiMain ==
    /\ pc = "gemini_exit"
    /\ IF exc # NoException
       THEN \* except Exception: print the error, return 1
            /\ d_rc' = 1
            /\ UNCHANGED output
       ELSE IF svc[Len(svc)] = "no_text"
       THEN \* open(..., "w") empties the file, f.write(None) raises TypeError
            /\ d_rc' = 1
            /\ output' = [strategy |-> "direct", mode |-> "empty"]
       ELSE /\ d_rc' = 0
            /\ output' = Written("direct", args.mode, TRUE)
    /\ pc' = "gemini_return"
    /\ UNCHANGED <<args, installed, success, result, log, exit_code>>
    /\ UNCHANGED <<max_retries, attempt, svc, waits, exc>>
    /\ UNCHANGED <<wait_time, stderr, batch_result>>
    /\ UNCHANGED localVars
    /\ UNCHANGED callerVars
    /\ UNCHANGED video_id

Next ==
    \/ Validate
    \/ Step1ForceYtdlp
    \/ Step2Captions
    \/ Step2ForceGemini
    \/ Step3
    \/ CreateClient
    \/ GenerateContent
    \/ GeminiMain
    \/ TryGeminiReturn
    \/ Step4
    \/ Step5Summary
    \/ Step5Outline
    \/ Finish
    \/ TranscribeVideoReturn

Spec == Init /\ [][Next]_vars

\* Each strategy call returns and main goes on to its next statement.
FairSpec == Spec /\ WF_vars(Next)

(***************************************************************************)
(* transcribe_youtube_smart.py run twice on the same command line          *)
(***************************************************************************)
\* The steps of one run of the orchestrator and of the Direct child.
NextRun ==
    \/ Validate
    \/ Step1ForceYtdlp
    \/ Step2Captions
    \/ Step2ForceGemini
    \/ Step3
    \/ CreateClient
    \/ GenerateContent
    \/ GeminiMain
    \/ TryGeminiReturn
    \/ Step4
    \/ Step5Summary
    \/ Step5Outline
    \/ Finish

\* In the second run the children and the user answer as in the first run:
\* a Captions or Local child called with the arguments of a call of the first
\* run ends as that call did, the k-th generate_content call answers as the
\* k-th did, genai.Client is created or not as before, and the install dialog
\* is answered alike.
StubEnvironment ==
    run = 2 =>
       /\ installed' = first.installed
       /\ pc = "step1" => ((pc' = "done") <=> first.crashed)
       /\ pc = "gemini_start" => ((pc' = "generate") <=> first.svc # <<>>)
       /\ \A i \in 1..Len(log'), j \in 1..Len(first.log) :
             /\ log'[i].strategy # "direct"
             /\ log'[i].strategy = first.log[j].strategy
             /\ log'[i].mode = first.log[j].mode
             => log'[i].outcome = first.log[j].outcome
       /\ \A k \in 1..Len(svc') : k <= Len(first.svc) => svc'[k] = first.svc[k]

\* The finished process is started again: main's locals are fresh, the
\* installed packages and the output file are what the first run left.
Rerun ==
    /\ pc = "done"
    /\ run = 1
    /\ first' = [log |-> log, svc |-> svc, exit_code |-> exit_code,
                 installed |-> installed, crashed |-> stderr # <<>>]
    /\ run' = 2
    /\ pc' = "validate"
    /\ success' = FALSE
    /\ result' = "None"
    /\ log' = <<>>
    /\ exit_code' = -1
    /\ attempt' = 0
    /\ svc' = <<>>
    /\ waits' = <<>>
    /\ exc' = NoException
    /\ d_rc' = -1
    /\ wait_time' = NoWait
    /\ stderr' = <<>>
    /\ video_id' = None
    /\ UNCHANGED batchVars
    /\ UNCHANGED <<args, installed, output, max_retries, batch_result>>
    /\ UNCHANGED localVars

NextRerun ==
    \/ NextRun /\ StubEnvironment
    \/ Rerun

SpecRerun == Init /\ [][NextRerun]_vars

(***************************************************************************)
(* transcribe_youtube_video called with max_retries = N                    *)
(***************************************************************************)
\* The function is entered with its client created; nothing else runs.
InitRetry ==
    /\ args = [url |-> WatchUrl(Id1), mode |-> "transcribe",
               force_gemini |-> FALSE, force_ytdlp |-> FALSE]
    /\ installed = FALSE
    /\ pc = "generate"
    /\ success = FALSE
    /\ result = "None"
    /\ log = <<>>
    /\ output = NoArtifact
    /\ exit_code = -1
    /\ max_retries \in 1..MaxAttempts
    /\ attempt = 0
    /\ svc = <<>>
    /\ waits = <<>>
    /\ exc = NoException
    /\ d_rc = -1
    /\ wait_time = NoWait
    /\ stderr = <<>>
    /\ batch_result = NotReturned
    /\ l_args = NoLocalArgs
    /\ l_pc = "idle"
    /\ LocalIdle
    /\ run = 1
    /\ first = NoFirstRun
    /\ video_id = None
    /\ BatchIdle

NextRetry == GenerateContent

SpecRetry == InitRetry /\ [][NextRetry]_vars

(***************************************************************************)
(* extract_video_id applied by main to each shape of reference             *)
(***************************************************************************)
InitResolver ==
    /\ args \in [url : {Wrap(shape, id) : shape \in Shapes, id \in VideoIds},
                 mode : Modes, force_gemini : BOOLEAN, force_ytdlp : BOOLEAN]
    /\ MainStarts
    /\ BatchIdle

NextResolver == Validate

SpecResolver == InitResolver /\ [][NextResolver]_vars

(***************************************************************************)
(* transcribe_youtube_ytdlp.py main, run from its own command line         *)
(***************************************************************************)
\* audio_path: args.audio_output when given, else temp_dir / "audio"
AudioPath(a) == IF a.audio_output THEN "audio_output" ELSE "temp_audio"

\* `if args.audio_output: args.keep_audio = True`
KeepAudio(a) == a.keep_audio \/ a.audio_output

\* Mutant of WithExit: the directory is left behind.
WithExit_keeps(fs) == fs

\* tempfile.TemporaryDirectory.__exit__ removes the directory with what is in it
WithExit(fs) == fs \ {"temp_audio"}

\* `if uploaded_file:` of the finally block
NeedsCleanup(uf) == uf # "None"

\* Control leaves the with block with the files fs on disk, normally (rc 0) or
\* by an exception caught by `except Exception` (rc 1); the finally block follows.
LocalLeave(fs, rc) ==
    /\ files' = WithExit(fs)
    /\ temp_dir' = "removed"
    /\ l_rc' = rc
    /\ l_pc' = "l_finally"

InitLocal ==
    /\ args = [url |-> WatchUrl(Id1), mode |-> "transcribe",
               force_gemini |-> FALSE, force_ytdlp |-> FALSE]
    /\ installed = FALSE
    /\ pc = "idle"
    /\ success = FALSE
    /\ result = "None"
    /\ log = <<>>
    /\ output = NoArtifact
    /\ exit_code = -1
    /\ max_retries = DEFAULT_MAX_RETRIES
    /\ attempt = 0
    /\ svc = <<>>
    /\ waits = <<>>
    /\ exc = NoException
    /\ d_rc = -1
    /\ wait_time = NoWait
    /\ stderr = <<>>
    /\ batch_result = NotReturned
    /\ l_args \in [mode : Modes, audio_output : BOOLEAN, keep_audio : BOOLEAN]
    /\ l_pc = "l_check"
    /\ LocalIdle
    /\ run = 1
    /\ first = NoFirstRun
    /\ video_id = None
    /\ BatchIdle

\* Check if yt-dlp is installed; enter the try and the with block
LocalCheckYtdlp ==
    /\ l_pc = "l_check"
    /\ \E has \in BOOLEAN, response \in InputResponses, pip_ok \in BOOLEAN :
         IF has \/ (response = "y" /\ pip_ok)
         THEN /\ temp_dir' = "exists"
              /\ l_args' = [l_args EXCEPT !.keep_audio = KeepAudio(l_args)]
              /\ l_pc' = "l_download"
              /\ UNCHANGED l_rc
         ELSE /\ l_rc' = 1
              /\ l_pc' = "l_done"
              /\ UNCHANGED <<temp_dir, l_args>>
    /\ UNCHANGED <<files, remote, polls, uploaded_file, cleanup>>
    /\ UNCHANGED smartVars
    /\ UNCHANGED callerVars
    /\ UNCHANGED video_id
    /\ UNCHANGED l_gen

\* download_audio
LocalDownload ==
    /\ l_pc = "l_download"
    /\ \E d \in DownloadOutcomes :
         CASE d = "ok" ->
                /\ files' = files \cup {AudioPath(l_args)}
                /\ l_pc' = "l_upload"
                /\ UNCHANGED <<temp_dir, l_rc>>
           [] d = "failed" -> LocalLeave(files, 1)
           [] d = "failed_partial" -> LocalLeave(files \cup {AudioPath(l_args)}, 1)
    /\ UNCHANGED <<l_args, remote, polls, uploaded_file, cleanup>>
    /\ UNCHANGED smartVars
    /\ UNCHANGED callerVars
    /\ UNCHANGED video_id
    /\ UNCHANGED l_gen

\* upload_to_gemini: genai.upload_file
LocalUpload ==
    /\ l_pc = "l_upload"
    /\ \E r \in FileResponses :
         IF r = "error"
         THEN /\ LocalLeave(files, 1)
              /\ UNCHANGED remote
         ELSE /\ remote' = r
              /\ l_pc' = "l_poll"
              /\ UNCHANGED <<files, temp_dir, l_rc>>
    /\ UNCHANGED <<l_args, polls, uploaded_file, cleanup>>
    /\ UNCHANGED smartVars
    /\ UNCHANGED callerVars
    /\ UNCHANGED video_id
    /\ UNCHANGED l_gen

\* upload_to_gemini: one turn of `while uploaded_file.state.name == "PROCESSING"`
LocalPoll ==
    /\ l_pc = "l_poll"
    /\ remote = "PROCESSING"
    /\ polls' = (polls + 1) % PollWindow
    /\ \E r \in FileResponses :
         IF r = "error"
         THEN /\ LocalLeave(files, 1)
              /\ UNCHANGED remote
         ELSE /\ remote' = r
              /\ UNCHANGED <<l_pc, files, temp_dir, l_rc>>
    /\ UNCHANGED <<l_args, uploaded_file, cleanup>>
    /\ UNCHANGED smartVars
    /\ UNCHANGED callerVars
    /\ UNCHANGED video_id
    /\ UNCHANGED l_gen

\* upload_to_gemini after the loop: raise on FAILED, else return the file to main
LocalUploaded ==
    /\ l_pc = "l_poll"
    /\ remote # "PROCESSING"
    /\ IF remote = "FAILED"
       THEN /\ LocalLeave(files, 1)
            /\ UNCHANGED uploaded_file
       ELSE /\ uploaded_file' = "file"
            /\ l_pc' = "l_generate"
            /\ UNCHANGED <<files, temp_dir, l_rc>>
    /\ UNCHANGED <<l_args, remote, polls, cleanup>>
    /\ UNCHANGED smartVars
    /\ UNCHANGED callerVars
    /\ UNCHANGED video_id
    /\ UNCHANGED l_gen

\* transcribe_audio_with_gemini, save the result, copy the audio if requested
LocalGenerate ==
    /\ l_pc = "l_generate"
    /\ \E g \in GenerationOutcomes :
         /\ l_gen' = Append(l_gen, g)
         /\ IF g = "ok"
            THEN LocalLeave(files \cup {"output"} \cup
                            (IF l_args.keep_audio /\ ~l_args.audio_output
                             THEN {"audio_copy"} ELSE {}), 0)
            ELSE LocalLeave(files, 1)
    /\ UNCHANGED <<l_args, remote, polls, uploaded_file, cleanup>>
    /\ UNCHANGED smartVars
    /\ UNCHANGED callerVars
    /\ UNCHANGED video_id

\* the finally block and the return
LocalFinally ==
    /\ l_pc = "l_finally"
    /\ IF NeedsCleanup(uploaded_file)
       THEN \E d \in DeleteOutcomes :
              /\ cleanup' = d
              /\ remote' = IF d = "deleted" THEN "deleted" ELSE remote
       ELSE UNCHANGED <<cleanup, remote>>
    /\ l_pc' = "l_done"
    /\ UNCHANGED <<l_args, temp_dir, files, polls, uploaded_file, l_rc>>
    /\ UNCHANGED smartVars
    /\ UNCHANGED callerVars
    /\ UNCHANGED video_id
    /\ UNCHANGED l_gen

NextLocal ==
    \/ LocalCheckYtdlp
    \/ LocalDownload
    \/ LocalUpload
    \/ LocalPoll
    \/ LocalUploaded
    \/ LocalGenerate
    \/ LocalFinally

SpecLocal == InitLocal /\ [][NextLocal]_vars

\* The script keeps running while it has a step to take.
FairSpecLocal == SpecLocal /\ WF_vars(NextLocal)

(***************************************************************************)
(* youtube_playlist_to_markdown.py                                         *)
(***************************************************************************)
MaxVideos == 3
\* --force: absent, or one of its three choices
ForceOptions == {"None", "api", "gemini", "ytdlp"}
\* --start and --end are any integers; the ones around the playlist's ends
StartValues == (0 - 1)..(MaxVideos + 1)
EndValues == (0 - 2)..(MaxVideos + 1)
Ends == {NoEnd} \cup [given : {TRUE}, value : EndValues]
\* What running transcribe_youtube_smart.py on one video can come to: exit
\* code 0 with the output written, a non-zero exit code with the output path
\* untouched or with an empty file left at it, or subprocess.run raising.
ChildOutcomes == {"ok", "failed", "partial", "exception"}
SKIPPED == "Skipped - already exists"

Digits == <<"0", "1", "2", "3", "4", "5", "6", "7", "8", "9">>
\* The id yt-dlp lists at playlist position k.
PlaylistId(k) == <<"v", "i", "d", "-", "_", "A", "b", "C", "0", "0", Digits[k + 1]>>
\* get_playlist_videos_ytdlp: the 'url' of each entry
VideoUrl(id) ==
    IF StartsWith(id, <<"h", "t", "t", "p">>) THEN id ELSE WatchUrl(id)

max(a, b) == IF a >= b THEN a ELSE b
min(a, b) == IF a <= b THEN a ELSE b
\* bool(args.end): None and 0 are both false
Truthy(end) == end.given /\ end.value # 0
\* seq[a:b] of Python for a >= 0: a negative b counts from the end, and both
\* are clamped to the length.
Slice(seq, a, b) ==
    LET n  == Len(seq)
        hi == IF b < 0 THEN max(0, b + n) ELSE min(b, n)
        lo == min(a, n)
    IN  IF hi <= lo THEN <<>> ELSE SubSeq(seq, lo + 1, hi)
start_idx(start) == max(0, start - 1)
end_idx(end, n) == IF Truthy(end) THEN min(n, end.value) ELSE n
VideosToProcess(vs, start, end) ==
    Slice(vs, start_idx(start), end_idx(end, Len(vs)))

\* transcribe_video: the command line it builds
TranscribeVideoCmd(video_url, mode, force_method) ==
    [url |-> video_url, mode |-> mode,
     force_gemini |-> force_method = "gemini",
     force_ytdlp |-> force_method = "ytdlp"]
\* transcribe_video: the output file is <id>_<mode>.txt
FileStem(id, mode) == id \o <<"_", mode>>
OutputId(video_url) == SearchVideoId(video_url)

\* video['url'].split('=')[-1]
GlobKey(video_url) ==
    LET parts == Split(video_url, "=") IN parts[Len(parts)]
Contains(s, p) == \E i \in 1..(Len(s) + 1) : StartsAt(s, p, i)
\* Path(output_dir).glob("*<key>*.txt") over the .txt files of the directory
existing_files(dir, mode, video_url) ==
    {id \in DOMAIN dir :
        dir[id] # "absent" /\ Contains(FileStem(id, mode), GlobKey(video_url))}
ShouldSkip_ignores_files(skip_existing, existing) == skip_existing
ShouldSkip(skip_existing, existing) == skip_existing /\ existing # {}

\* The entry the loop appends for a skipped and for a transcribed video.
SkipResult_none(rs) == rs
SkipResult(rs) ==
    Append(rs, [success |-> TRUE, output |-> SKIPPED, error |-> "absent"])
TranscribeResult(rs, ok, message) ==
    Append(rs, [success |-> ok,
                output |-> IF ok THEN message ELSE "None",
                error |-> IF ~ok THEN message ELSE "None"])
\* sum(1 for r in results if r['success'])
Successful(rs) == Cardinality({i \in 1..Len(rs) : rs[i].success})

\* What the child leaves at the output path.
Leaves(dir, id, outcome) ==
    IF id \notin DOMAIN dir THEN dir
    ELSE CASE outcome = "ok" -> [dir EXCEPT ![id] = "new"]
           [] outcome = "partial" -> [dir EXCEPT ![id] = "empty"]
           [] OTHER -> dir

InitBatch ==
    /\ \E n \in 0..MaxVideos : videos = [k \in 1..n |-> PlaylistId(k)]
    /\ b_args \in [start : StartValues, end : Ends, skip_existing : BOOLEAN,
                   force : {"None", "api"}, mode : {"transcribe"}]
    /\ out_dir \in [{videos[k] : k \in 1..Len(videos)} -> {"absent", "old"}]
    /\ out_dir0 = out_dir
    /\ smart_exists \in BOOLEAN
    /\ b_i = 0
    /\ b_pc = "b_start"
    /\ videos_to_process = <<>>
    /\ results = <<>>
    /\ orchestrated = <<>>
    /\ reported = NotReported
    /\ args = [url |-> None, mode |-> "transcribe",
               force_gemini |-> FALSE, force_ytdlp |-> FALSE]
    /\ MainStarts

\* main up to the loop: the playlist is listed, the start/end filters are
\* applied, the output directory and the smart script are looked for.
BatchSelect ==
    /\ b_pc = "b_start"
    /\ IF videos = <<>>
       THEN /\ b_pc' = "b_exit"
            /\ UNCHANGED videos_to_process
       ELSE /\ videos_to_process' =
                   VideosToProcess(videos, b_args.start, b_args.end)
            /\ b_pc' = IF smart_exists THEN "b_loop" ELSE "b_exit"
    /\ UNCHANGED <<b_args, videos, results, out_dir, out_dir0, orchestrated,
                   reported, smart_exists, b_i>>
    /\ UNCHANGED <<run, first>>
    /\ UNCHANGED smartVars
    /\ UNCHANGED localVars
    /\ UNCHANGED video_id

\* One iteration of the loop over videos_to_process, transcribe_video and the
\* child it runs included.
BatchIteration ==
    /\ b_pc = "b_loop"
    /\ b_i < Len(videos_to_process)
    /\ b_i' = b_i + 1
    /\ LET video == videos_to_process[b_i + 1]
           url   == VideoUrl(video)
       IN  IF ShouldSkip(b_args.skip_existing,
                         existing_files(out_dir, b_args.mode, url))
           THEN /\ results' = SkipResult(results)
                /\ UNCHANGED <<out_dir, orchestrated>>
           ELSE \E outcome \in ChildOutcomes :
                /\ orchestrated' =
                      Append(orchestrated,
                             TranscribeVideoCmd(url, b_args.mode, b_args.force))
                /\ out_dir' = Leaves(out_dir, OutputId(url), outcome)
                /\ results' = TranscribeResult(results, outcome = "ok", outcome)
    /\ UNCHANGED <<b_args, b_pc, videos, videos_to_process, out_dir0,
                   reported, smart_exists>>
    /\ UNCHANGED <<run, first>>
    /\ UNCHANGED smartVars
    /\ UNCHANGED localVars
    /\ UNCHANGED video_id

\* After the loop: create_playlist_summary and the final counts.
BatchSummary ==
    /\ b_pc = "b_loop"
    /\ b_i >= Len(videos_to_process)
    /\ reported' = [successful |-> Successful(results),
                    failed |-> Len(videos_to_process) - Successful(results)]
    /\ b_pc' = "b_done"
    /\ UNCHANGED <<b_args, videos, videos_to_process, results, out_dir,
                   out_dir0, orchestrated, smart_exists, b_i>>
    /\ UNCHANGED <<run, first>>
    /\ UNCHANGED smartVars
    /\ UNCHANGED localVars
    /\ UNCHANGED video_id

NextBatch ==
    \/ BatchSelect
    \/ BatchIteration
    \/ BatchSummary

SpecBatch == InitBatch /\ [][NextBatch]_vars

(***************************************************************************)
(* transcribe_video of the playlist batch running the orchestrator         *)
(***************************************************************************)
\* One video of the batch: transcribe_video has built the command line from
\* the batch's --mode and --force and starts the child.
InitTranscribeVideo ==
    /\ b_args \in [start : {1}, end : {NoEnd}, skip_existing : {FALSE},
                   force : ForceOptions, mode : Modes]
    /\ videos = <<PlaylistId(1)>>
    /\ videos_to_process = videos
    /\ smart_exists = TRUE
    /\ b_i = 0
    /\ b_pc = "b_loop"
    /\ results = <<>>
    /\ out_dir = [id \in {PlaylistId(1)} |-> "absent"]
    /\ out_dir0 = out_dir
    /\ reported = NotReported
    /\ args = TranscribeVideoCmd(VideoUrl(PlaylistId(1)), b_args.mode,
                                 b_args.force)
    /\ orchestrated = <<args>>
    /\ MainStarts

NextTranscribeVideo ==
    \/ NextRun
    \/ TranscribeVideoReturn

SpecTranscribeVideo == InitTranscribeVideo /\ [][NextTranscribeVideo]_vars

(***************************************************************************)
(* Vocabulary of the properties                                            *)
(***************************************************************************)
Done == pc = "done"
Unforced == ~args.force_gemini /\ ~args.force_ytdlp
Idx(strategy) == {i \in 1..Len(log) : log[i].strategy = strategy}
LocalIdx == Idx("local")
\* The strategy calls of the run, in order, without their outcomes.
Attempts == [i \in 1..Len(log) |-> <<log[i].strategy, log[i].mode>>]
\* The modes of the yt-dlp calls, in call order.
LocalModes == SelectSeq(log, LAMBDA x : x.strategy = "local")
DirectTooLarge == \E i \in Idx("direct") : log[i].outcome = "token_limit"

(***************************************************************************)
(* C1: in an unforced run with the captions package available, Captions is *)
(* the first strategy invoked; when it succeeds the run makes no other     *)
(* call and exits 0; when it does not, the next call is Direct at the      *)
(* requested mode.                                                         *)
(***************************************************************************)
C1_CaptionsFirst ==
    (Unforced /\ installed) =>
      /\ (pc \notin {"validate", "step1"} /\ ~Rejected(extract_video_id(args.url)))
            => Len(log) >= 1
      /\ Len(log) >= 1 =>
            /\ log[1].strategy = "captions"
            /\ log[1].outcome = "ok" =>
                  /\ Len(log) = 1
                  /\ pc \in {"step3", "finish", "done"}
                  /\ Done => exit_code = 0
            /\ log[1].outcome # "ok" =>
                  /\ pc \in {"step3"} \/ Len(log) >= 2
                  /\ Len(log) >= 2 =>
                        /\ log[2].strategy = "direct"
                        /\ log[2].mode = args.mode

\* A run that ends in the case of C1.
C1_Witness ==
    /\ Done /\ Unforced /\ installed
    /\ args.mode = "outline"
    /\ Len(log) >= 2
    /\ log[1] = Entry("captions", "transcribe", "error")
    /\ log[2].strategy = "direct" /\ log[2].mode = "outline"

\* The case C2 is about.
C2_Pre ==
    /\ Len(log) >= 2
    /\ log[1].strategy = "captions" /\ log[1].outcome = "no_transcripts"
    /\ log[2].strategy = "direct" /\ log[2].outcome = "True"

(***************************************************************************)
(* C2: Captions finds no transcripts and Direct succeeds: the run makes    *)
(* exactly these two calls, never calls Local, leaves Direct's artifact    *)
(* and exits 0.                                                            *)
(***************************************************************************)
C2_CaptionsThenDirect ==
    C2_Pre =>
      /\ Len(log) = 2
      /\ LocalIdx = {}
      /\ output = [strategy |-> "direct", mode |-> args.mode]
      /\ pc \in {"step4", "finish", "done"}
      /\ pc \in {"finish", "done"} => success
      /\ Done => exit_code = 0

\* A run that ends in the case of C2.
C2_Witness == C2_Pre /\ Done /\ exit_code = 0 /\ args.mode = "transcribe"

\* The case C3 is about.
C3_Pre ==
    /\ args.mode = "transcribe"
    /\ \E i \in Idx("direct") :
         /\ log[i].outcome = "token_limit"
         /\ Len(log) > i
         /\ log[i + 1] = Entry("local", "transcribe", "ok")

(***************************************************************************)
(* C3: Direct reports the token limit and Local succeeds at the requested  *)
(* mode transcribe: Local is called exactly once, no summarize or outline  *)
(* call is made, the artifact is Local's transcript and the run exits 0.   *)
(***************************************************************************)
C3_LocalOnceAtTranscript ==
    C3_Pre =>
      /\ Cardinality(LocalIdx) = 1
      /\ log[Len(log)] = Entry("local", "transcribe", "ok")
      /\ output = [strategy |-> "local", mode |-> "transcribe"]
      /\ pc \in {"step5_summary", "finish", "done"}
      /\ Done => exit_code = 0

\* A run that ends in the case of C3.
C3_Witness == C3_Pre /\ Done /\ exit_code = 0 /\ Cardinality(LocalIdx) = 1

\* The case C4 is about.
C4_Pre ==
    /\ Done
    /\ args.mode = "transcribe"
    /\ \E i \in Idx("captions") : log[i].outcome # "ok"
    /\ DirectTooLarge
    /\ \A i \in LocalIdx : (log[i].outcome = "ok") <=> (log[i].mode = "outline")

(***************************************************************************)
(* C4: Captions does not succeed, Direct reports the token limit, Local    *)
(* fails at transcribe and at summarize and succeeds at outline: the run   *)
(* exits 0 with the outline as artifact, and its calls are exactly         *)
(* Captions, Direct, Local-transcribe, Local-summarize, Local-outline.     *)
(***************************************************************************)
C4_FiveAttempts ==
    C4_Pre =>
      /\ Attempts = << <<"captions", "transcribe">>, <<"direct", "transcribe">>,
                       <<"local", "transcribe">>, <<"local", "summarize">>,
                       <<"local", "outline">> >>
      /\ output = [strategy |-> "local", mode |-> "outline"]
      /\ exit_code = 0

\* A run that ends in the case of C4.
C4_Witness == C4_Pre /\ Len(log) = 5 /\ exit_code = 0

\* The case C5 is about.
C5_Pre ==
    /\ args.mode = "transcribe"
    /\ DirectTooLarge
    /\ \A i \in LocalIdx : log[i].outcome # "ok"

(***************************************************************************)
(* C5: requested mode transcribe, Direct reports the token limit and every *)
(* Local call fails, whatever the failure: Local is called exactly three   *)
(* times, at transcribe, summarize and outline in this order, and the run  *)
(* exits 1.                                                                *)
(***************************************************************************)
C5_DowngradeChain ==
    C5_Pre =>
      /\ Len(LocalModes) = 1 => pc = "step5_summary"
      /\ Len(LocalModes) = 2 => pc = "step5_outline"
      /\ Len(LocalModes) = 3 => pc \in {"finish", "done"}
      /\ pc \in {"finish", "done"} => Len(LocalModes) = 3
      /\ \A k \in 1..Len(LocalModes) :
           LocalModes[k].mode = <<"transcribe", "summarize", "outline">>[k]
      /\ Done => exit_code = 1

\* A run that ends in the case of C5.
C5_Witness ==
    /\ C5_Pre /\ Done /\ exit_code = 1
    /\ Len(LocalModes) = 3
    /\ LocalModes[1].outcome = "download_failed"
    /\ LocalModes[2].outcome = "upload_failed"
    /\ LocalModes[3].outcome = "generation_failed"

(***************************************************************************)
(* C6: requested mode summarize, Direct reports the token limit and Local  *)
(* fails at summarize: before the run ends in failure Local is called at   *)
(* outline.                                                                *)
(***************************************************************************)
C6_SummaryDowngradesToOutline ==
    ( /\ Done
      /\ args.mode = "summarize"
      /\ DirectTooLarge
      /\ \E i \in LocalIdx : log[i].mode = "summarize" /\ log[i].outcome # "ok"
      /\ exit_code = 1 )
    => \E i \in LocalIdx : log[i].mode = "outline"

\* The case C7 is about.
C7_Pre ==
    /\ args.mode = "outline"
    /\ \E i \in LocalIdx : log[i].outcome # "ok"

(***************************************************************************)
(* C7: requested mode outline and Local is reached: a Local failure of any *)
(* kind ends the run with exit code 1 and Local called exactly once.       *)
(***************************************************************************)
C7_OutlineFailureIsFinal ==
    C7_Pre =>
      /\ Cardinality(LocalIdx) = 1
      /\ \A i \in LocalIdx : log[i].mode = "outline"
      /\ pc \in {"step3", "step5_summary", "finish", "done"}
      /\ ~success
      /\ Done => exit_code = 1

\* A run that ends in the case of C7.
C7_Witness == C7_Pre /\ Done /\ exit_code = 1 /\ ~args.force_ytdlp

\* The case C8 is about.
C8_DirectFailedNotSize ==
    /\ Idx("direct") # {}
    /\ pc \notin {"gemini_start", "generate"}
    /\ \/ svc = <<>>
       \/ svc # <<>> /\ svc[Len(svc)] \in {"overloaded", "unavailable", "other",
                                             "no_text"}

(***************************************************************************)
(* C8: when Direct fails for a reason other than the token limit           *)
(* (exhausted overload retries included) Local is never called and the run *)
(* exits 1; in an unforced run every Local call comes after Direct         *)
(* reported the token limit.                                               *)
(***************************************************************************)
C8_NoLocalUnlessTooLarge ==
    /\ C8_DirectFailedNotSize =>
         /\ LocalIdx = {}
         /\ pc \in {"gemini_exit", "gemini_return", "step4", "finish", "done"}
         /\ ~success
         /\ Done => exit_code = 1
    /\ Unforced =>
         \A i \in LocalIdx :
            /\ \E j \in Idx("direct") : j < i /\ log[j].outcome = "token_limit"
            /\ svc # <<>> /\ svc[Len(svc)] = "too_large"

\* A run that ends in the case of C8.
C8_Witness ==
    /\ Done /\ exit_code = 1 /\ LocalIdx = {}
    /\ C8_DirectFailedNotSize
    /\ svc # <<>> /\ svc[Len(svc)] = "overloaded"
    /\ args.mode = "transcribe"

\* The case C9 is about.
C9_AlwaysOverloaded == svc # <<>> /\ \A i \in 1..Len(svc) : svc[i] = "overloaded"

(***************************************************************************)
(* C9: the retry loop with max_retries = 5 and a call that fails with the  *)
(* overload error every time makes exactly 5 calls and then raises an      *)
(* error that carries the number of attempts.                              *)
(***************************************************************************)
C9_FiveCallsThenFatal ==
    C9_AlwaysOverloaded =>
      /\ max_retries = 5
      /\ pc = "generate" => Len(svc) < 5 /\ attempt = Len(svc) /\ exc = NoException
      /\ pc # "generate" =>
           /\ Len(svc) = 5
           /\ exc = [kind |-> "overloaded_after", attempts |-> 5]
           /\ pc \notin {"gemini_exit"} => d_rc = 1

\* A run that ends in the case of C9.
C9_Witness ==
    C9_AlwaysOverloaded /\ Len(svc) = 5 /\ exc.kind = "overloaded_after" /\ Done

(***************************************************************************)
(* C10: in the retry loop an error that is not the overload error (the     *)
(* token limit or any other), on whichever attempt, leaves the loop at     *)
(* once: no further call is made and no sleep follows it.                  *)
(***************************************************************************)
C10_NonTransientPassesThrough ==
    \A i \in 1..Len(svc) :
       svc[i] \in {"too_large", "unavailable", "other"} =>
          /\ i = Len(svc)
          /\ Len(waits) = i - 1
          /\ pc # "generate"
          /\ exc.kind = IF svc[i] = "too_large" THEN "too_long" ELSE svc[i]

\* A run that ends in the case of C10.
C10_Witness ==
    /\ Len(svc) = 3
    /\ svc[3] = "too_large"
    /\ Len(waits) = 2
    /\ exc.kind = "too_long"
    /\ Done

(***************************************************************************)
(* C11: in the retry loop the wait before attempt k (k >= 2) has the       *)
(* integer base 2^(k-2), that is 1, 2, 4, 8 for max_retries = 5, plus a    *)
(* jitter in [0, 1); there is no wait before the first attempt and none    *)
(* after the final attempt fails.                                          *)
(***************************************************************************)
C11_BackoffSchedule ==
    /\ Len(waits) <= max_retries - 1
    /\ waits = SubSeq(<<1, 2, 4, 8>>, 1, Len(waits))
    /\ svc = <<>> => waits = <<>> /\ wait_time = NoWait
    /\ svc # <<>> =>
         Len(waits) = IF pc = "generate" THEN Len(svc) ELSE Len(svc) - 1
    /\ waits # <<>> =>
         /\ wait_time.base = waits[Len(waits)]
         /\ 0 <= wait_time.jitter /\ wait_time.jitter < JitterDen
    /\ exc.kind = "overloaded_after" =>
         Len(svc) = max_retries /\ Len(waits) = max_retries - 1

\* A run that ends in the case of C11.
C11_Witness ==
    /\ Done /\ exc.kind = "overloaded_after"
    /\ waits = <<1, 2, 4, 8>>
    /\ wait_time = [base |-> 8, jitter |-> 1]

LocalExited == l_pc = "l_done"

(***************************************************************************)
(* C13: when the Local script has returned and a file was created on the   *)
(* remote service, that file has been deleted from it (unless the delete   *)
(* call itself failed), on every exit path: generation success, generation *)
(* failure, upload state FAILED, error raised while polling.               *)
(***************************************************************************)
C13_RemoteFileDeleted ==
    LocalExited /\ remote # "absent" /\ cleanup # "error" => remote = "deleted"

(***************************************************************************)
(* C14: the polling loop of upload_to_gemini is always left, also when the *)
(* service keeps reporting PROCESSING.                                     *)
(***************************************************************************)
C14_PollingTerminates == (l_pc = "l_poll") ~> (l_pc # "l_poll")

(***************************************************************************)
(* C15: without --audio-output, once the Local script has left its with    *)
(* block, and so when it has returned, the downloaded audio in the         *)
(* temporary directory no longer exists, on every exit path.               *)
(***************************************************************************)
C15_TempAudioRemoved ==
    l_pc \in {"l_finally", "l_done"} /\ ~l_args.audio_output =>
       /\ "temp_audio" \notin files
       /\ "audio_output" \notin files
       /\ temp_dir \in {"none", "removed"}

\* A run that ends in the case of C15: the audio was downloaded, the upload failed.
C15_Witness ==
    /\ LocalExited /\ ~l_args.audio_output /\ l_args.keep_audio
    /\ l_rc = 1 /\ remote = "FAILED"
    /\ temp_dir = "removed"

\* The reference resolves to no identifier: none is found, or an empty one.
InvalidReference == args.url \in {NotAUrl, EmptyIdUrl}
\* The strategy calls of the run that succeeded.
Succeeded == {i \in 1..Len(log) : log[i].outcome \in {"ok", "True"}}

(***************************************************************************)
(* C16: a run of the orchestrator whose command line parsed exits with 0   *)
(* or 1 and nothing else: 0 exactly when a strategy call succeeded and its *)
(* artifact is at the output, 1 exactly when the reference is invalid or   *)
(* every strategy call made has failed.                                    *)
(***************************************************************************)
C16_ExitCodes ==
    /\ exit_code \in {-1, 0, 1}
    /\ Done <=> exit_code \in {0, 1}
    /\ Done =>
         /\ exit_code = 0 <=>
               /\ Succeeded # {}
               /\ output \in {[strategy |-> log[i].strategy, mode |-> log[i].mode] :
                                 i \in Succeeded}
         /\ exit_code = 1 <=> (InvalidReference \/ Succeeded = {})

\* A run that ends in the case of C16: failed calls, then one that succeeds.
C16_Witness ==
    /\ Done /\ exit_code = 0
    /\ Len(log) = 4 /\ Succeeded = {4}
    /\ output = [strategy |-> "local", mode |-> "outline"]

(***************************************************************************)
(* C17: a reference that resolves to no identifier is rejected before any  *)
(* strategy runs: the run goes from validation to its end with exit code 1 *)
(* and no call of Captions, Direct or Local, and nothing is written.       *)
(***************************************************************************)
C17_InvalidRejected ==
    InvalidReference =>
       /\ pc \in {"validate", "done"}
       /\ log = <<>> /\ svc = <<>>
       /\ output = NoArtifact
       /\ Done => exit_code = 1

\* A run that ends in the case of C17.
C17_Witness ==
    /\ Done /\ exit_code = 1 /\ log = <<>>
    /\ args.url = EmptyIdUrl
    /\ video_id = <<>>

\* The bound of C18 on the strategy calls of one run.
BoundedCalls ==
    /\ Cardinality(Idx("captions")) <= 1
    /\ Cardinality(Idx("direct")) <= 1
    /\ Cardinality(LocalIdx) <= 3
    /\ Len(log) <= 5

(***************************************************************************)
(* C18: when every strategy call returns, a run makes at most one Captions *)
(* call, one Direct call and three Local calls, and it reaches one         *)
(* terminal outcome, exit code 0 or exit code 1, which it keeps.           *)
(***************************************************************************)
C18_OneOutcomeBoundedCalls ==
    /\ []BoundedCalls
    /\ \/ <>[](Done /\ exit_code = 0)
       \/ <>[](Done /\ exit_code = 1)

\* A run that ends in the case of C18: the longest run.
C18_Witness ==
    /\ Done /\ batch_result.returned
    /\ Cardinality(Idx("captions")) = 1
    /\ Cardinality(Idx("direct")) = 1
    /\ Cardinality(LocalIdx) = 3
    /\ Len(svc) = 5

(***************************************************************************)
(* C19: no partial artifact: when the run has ended with exit code 1 no    *)
(* strategy has written anything to the output, and when it has ended with *)
(* exit code 0 the output holds the artifact of the one call that          *)
(* succeeded.                                                              *)
(***************************************************************************)
C19_NoPartialArtifact ==
    Done =>
       /\ exit_code = 1 => output = NoArtifact
       /\ exit_code = 0 =>
            /\ Cardinality(Succeeded) = 1
            /\ \A i \in Succeeded :
                  output = [strategy |-> log[i].strategy, mode |-> log[i].mode]

\* The strategy calls that a message the batch keeps tells of, in order.
AttemptsIn(message) == SelectSeq(message, LAMBDA x : x.strategy # "none")

(***************************************************************************)
(* C20: when the run has ended in failure and transcribe_video of the      *)
(* playlist batch has returned, what the batch received tells of every     *)
(* strategy call of the run with its outcome, in call order.               *)
(***************************************************************************)
C20_BatchReceivesAttemptLog ==
    batch_result.returned /\ ~batch_result.success =>
       AttemptsIn(batch_result.message) = log

\* The first strategy call of a log that succeeded, 0 when there is none.
FirstSuccess(l) ==
    IF \E i \in 1..Len(l) : l[i].outcome \in {"ok", "True"}
    THEN CHOOSE i \in 1..Len(l) :
           /\ l[i].outcome \in {"ok", "True"}
           /\ \A j \in 1..(i - 1) : l[j].outcome \notin {"ok", "True"}
    ELSE 0

(***************************************************************************)
(* C21: when the orchestrator is run again on the same command line and    *)
(* every strategy answers as it did in the first run, the second run makes *)
(* the calls of the first run in the same order and no other, so it ends   *)
(* with the same sequence of calls and outcomes, the same first successful *)
(* strategy and mode, and the same exit code.                              *)
(***************************************************************************)
C21_RerunRepeatsFirstRun ==
    run = 2 =>
       /\ Len(log) <= Len(first.log)
       /\ \A i \in 1..Len(log) :
             /\ log[i].strategy = first.log[i].strategy
             /\ log[i].mode = first.log[i].mode
             /\ log[i].outcome \in {"running", first.log[i].outcome}
       /\ Done =>
             /\ log = first.log
             /\ FirstSuccess(log) = FirstSuccess(first.log)
             /\ exit_code = first.exit_code

\* A run that ends in the case of C21: the first run installed the captions
\* package and went through Captions, Direct and Local, and so did the second.
C21_Witness ==
    /\ run = 2 /\ Done /\ exit_code = 0
    /\ Len(first.log) = 4 /\ log = first.log
    /\ log[1].strategy = "captions"
    /\ FirstSuccess(log) = 4

(***************************************************************************)
(* C22: for one video identifier, extract_video_id gives that identifier   *)
(* for each shape that wraps it: the watch URL, the short URL, the embed   *)
(* URL and the bare 11-character identifier.                               *)
(***************************************************************************)
C22_SameIdForEveryShape ==
    pc # "validate" =>
       \A id \in VideoIds, shape \in Shapes :
          args.url = Wrap(shape, id) => video_id = id

\* The part of C22 that the code meets: the three URL shapes.
UrlShapesResolve ==
    pc # "validate" =>
       \A id \in VideoIds, shape \in Shapes \ {"bare"} :
          args.url = Wrap(shape, id) => video_id = id

(***************************************************************************)
(* C23: within one run no strategy is called twice with the same mode:     *)
(* Captions is called at most once, Direct at most once, and Local at most *)
(* once for each mode.                                                     *)
(***************************************************************************)
C23_NoRepeatedCall ==
    /\ Cardinality(Idx("captions")) <= 1
    /\ Cardinality(Idx("direct")) <= 1
    /\ \A i, j \in LocalIdx : i # j => log[i].mode # log[j].mode

\* A run that ends in the case of C23: every strategy was called, Local three times.
C23_Witness ==
    /\ Done /\ exit_code = 0 /\ Len(log) = 5
    /\ Cardinality(LocalIdx) = 3
    /\ {log[i].mode : i \in LocalIdx} = Modes

\* The detail of a mode: the transcript is the finest, the outline the coarsest.
Detail(mode) ==
    CASE mode = "transcribe" -> 3
      [] mode = "summarize"  -> 2
      [] mode = "outline"    -> 1

\* The Local calls of the run go from finer to coarser modes.
LocalDetailDecreases ==
    \A i, j \in LocalIdx : i < j => Detail(log[i].mode) > Detail(log[j].mode)

AllOverloaded(calls) == \A i \in 1..Len(calls) : calls[i] = "overloaded"

(***************************************************************************)
(* C25: in the retry loop with max_retries = N >= 1, while every call so   *)
(* far failed with the overload error and fewer than N calls were made the *)
(* loop goes on to the next call, one wait after each failure; and when    *)
(* the first j calls (0 <= j < N) failed with the overload error and call  *)
(* j + 1 succeeds, the loop returns that success after exactly j + 1 calls *)
(* and exactly j waits.                                                    *)
(***************************************************************************)
C25_SuccessAfterOverloads ==
    /\ AllOverloaded(svc) /\ Len(svc) < max_retries =>
         /\ pc = "generate" /\ exc = NoException
         /\ attempt = Len(svc) /\ Len(waits) = Len(svc)
    /\ svc # <<>> /\ svc[Len(svc)] = "ok" /\ AllOverloaded(SubSeq(svc, 1, Len(svc) - 1)) =>
         /\ pc = "gemini_exit" /\ exc = NoException
         /\ Len(svc) <= max_retries
         /\ Len(waits) = Len(svc) - 1

\* A run that ends in the case of C25: N = 3, two overloads, then success.
C25_Witness ==
    /\ max_retries = 3
    /\ svc = <<"overloaded", "overloaded", "ok">>
    /\ waits = <<1, 2>>
    /\ pc = "gemini_exit" /\ exc = NoException

(***************************************************************************)
(* C26: when the generation call of the Local script fails with the        *)
(* overload error for the first time, the script has not failed: the call  *)
(* is made again under the retry policy.                                   *)
(***************************************************************************)
C26_LocalRetriesOverload ==
    l_gen = <<"overloaded">> => l_rc # 1 /\ l_pc = "l_generate"

(***************************************************************************)
(* Vocabulary of the playlist batch                                        *)
(***************************************************************************)
\* The strategy the batch's --force names.
ForcedStrategy(force) ==
    CASE force = "api" -> "captions"
      [] force = "gemini" -> "direct"
      [] force = "ytdlp" -> "local"
      [] OTHER -> "none"
BatchDone == b_pc = "b_done"
\* 1-indexed playlist positions of the videos the loop went through.
Pos(id) == CHOOSE p \in 1..Len(videos) : videos[p] = id
Processed == [k \in 1..b_i |-> Pos(videos_to_process[k])]
Skipped(k) == results[k].output = SKIPPED
\* The urls of the selected videos up to position n that were not skipped.
RECURSIVE Transcribed(_)
Transcribed(n) ==
    IF n = 0 THEN <<>>
    ELSE Transcribed(n - 1) \o (IF Skipped(n) THEN <<>>
                                ELSE <<VideoUrl(videos_to_process[n])>>)
\* The urls passed to the orchestrator, in call order.
OrchestratedUrls == [k \in 1..Len(orchestrated) |-> orchestrated[k].url]
Occurrences(seq, x) == Cardinality({k \in 1..Len(seq) : seq[k] = x})

(***************************************************************************)
(* C27: when the batch is given --force, the orchestration of a video      *)
(* calls the forced strategy only: with "api" only Captions, with "gemini" *)
(* only Direct, with "ytdlp" only Local.                                   *)
(***************************************************************************)
C27_ForcedStrategyOnly ==
    b_args.force # "None" =>
       \A i \in 1..Len(log) : log[i].strategy = ForcedStrategy(b_args.force)

(***************************************************************************)
(* C28: the loop of the batch goes through every selected video whatever   *)
(* the earlier ones came to.  After i iterations results has i entries,    *)
(* entry k being that of the k-th selected video: the video was skipped,   *)
(* or it was passed to the orchestrator exactly once, the calls being in   *)
(* playlist order.  When the batch is done every selected video has its    *)
(* entry, and the successful and failed counts add up to the number of     *)
(* selected videos.                                                        *)
(***************************************************************************)
C28_OneEntryPerSelectedVideo ==
    /\ Len(results) = b_i
    /\ b_i <= Len(videos_to_process)
    /\ OrchestratedUrls = Transcribed(b_i)
    /\ \A k \in 1..Len(videos_to_process) :
          Occurrences(OrchestratedUrls, VideoUrl(videos_to_process[k]))
             = IF k <= b_i /\ ~Skipped(k) THEN 1 ELSE 0
    /\ BatchDone =>
          /\ b_i = Len(videos_to_process)
          /\ reported.successful = Successful(results)
          /\ reported.failed =
                Cardinality({k \in 1..Len(results) : ~results[k].success})
          /\ reported.successful + reported.failed = Len(videos_to_process)

\* A batch of three videos: the first is skipped, the orchestration of the
\* second fails, the third is transcribed.
C28_Witness ==
    /\ BatchDone
    /\ Len(results) = 3
    /\ Skipped(1)
    /\ ~results[2].success
    /\ results[3].success /\ ~Skipped(3)
    /\ reported = [successful |-> 2, failed |-> 1]

(***************************************************************************)
(* C29: with --skip-existing, a selected video that had an output file in  *)
(* the output directory when the batch started is not passed to the        *)
(* orchestrator, its file is what it was, and its entry is a success; a    *)
(* selected video with no output file is passed to the orchestrator with   *)
(* the command line it gets without --skip-existing, where no video is     *)
(* skipped.                                                                *)
(***************************************************************************)
C29_SkipExisting ==
    \A k \in 1..b_i :
       LET id  == videos_to_process[k]
           url == VideoUrl(id)
       IN  IF b_args.skip_existing /\ out_dir0[id] # "absent"
           THEN /\ Occurrences(OrchestratedUrls, url) = 0
                /\ out_dir[id] = out_dir0[id]
                /\ Skipped(k)
                /\ results[k].success
           ELSE /\ ~Skipped(k)
                /\ Occurrences(OrchestratedUrls, url) = 1
                /\ orchestrated[Len(Transcribed(k))] =
                      TranscribeVideoCmd(url, b_args.mode, b_args.force)

\* With --skip-existing the first video, which has a file, was skipped, and
\* the second, which has none, was transcribed and its file written.
C29_Witness ==
    /\ b_args.skip_existing
    /\ BatchDone
    /\ b_i = 2
    /\ out_dir0[videos_to_process[1]] = "old"
    /\ out_dir0[videos_to_process[2]] = "absent"
    /\ Skipped(1)
    /\ out_dir[videos_to_process[1]] = "old"
    /\ out_dir[videos_to_process[2]] = "new"
    /\ OrchestratedUrls = <<VideoUrl(videos_to_process[2])>>

(***************************************************************************)
(* C30: the videos the batch goes through are those at the playlist        *)
(* positions p with start <= p <= min(end, N), or start <= p when --end is *)
(* not given, in playlist order, for every integer start and end.          *)
(***************************************************************************)
C30_ProcessedPositions ==
    BatchDone =>
       LET N  == Len(videos)
           lo == max(1, b_args.start)
           hi == IF b_args.end.given THEN min(b_args.end.value, N) ELSE N
       IN  Processed = [k \in 1..max(0, hi - lo + 1) |-> lo + k - 1]

====
